---- MODULE Spec2Model ----
(***************************************************************************)
(* A model of src/src/main.rs: the class-timetable genetic algorithm.      *)
(*                                                                         *)
(* A Class is a record (subject, instructor, room, time_slot); a Schedule  *)
(* is a sequence of classes with its stored fitness.  The f64 fitness      *)
(* 1.0 / (1.0 + conflicts) is kept as the exact fraction num/den; for the  *)
(* conflict counts a schedule can have (at most three per class) distinct  *)
(* fractions are distinct f64 values in the same order, so comparing the   *)
(* fractions is comparing the floats.                                      *)
(*                                                                         *)
(* genetic_algorithm is a sequential function; pc is its position.  Every  *)
(* draw from the random number generator is a nondeterministic choice.     *)
(* A failed unwrap, an empty gen_range and an index out of range end the   *)
(* run in pc = "panicked".                                                 *)
(***************************************************************************)
EXTENDS Integers, Sequences, FiniteSets

VARIABLES
    subjects,         \* genetic_algorithm's argument: the course list
    instructors,      \* argument: the instructor pool
    rooms,            \* argument: the room pool
    time_slots,       \* argument: the number of time slots
    population_size,  \* argument
    generations,      \* argument
    population,       \* the local `population`
    next_gen,         \* the local `next_gen` of the running generation
    gen,              \* the loop variable of `for gen in 0..generations`
    pc,               \* position in genetic_algorithm
    result,           \* the returned Schedule, once returned
    scoring_output,   \* TRUE once a calculate_fitness call has printed
    initial_best,     \* history: <<lowest conflict count of the initial population>>
    parent1,          \* operator harness: `self` of crossover
    parent2,          \* operator harness: `other` of crossover
    child,            \* operator harness: the Schedule crossover returned, mutate's `self`
    call              \* operator harness: the last operator called

vars == <<subjects, instructors, rooms, time_slots, population_size, generations,
          population, next_gen, gen, pc, result, scoring_output, initial_best,
          parent1, parent2, child, call>>

harness == <<parent1, parent2, child, call>>

inputs == <<subjects, instructors, rooms, time_slots, population_size, generations>>

-----------------------------------------------------------------------------
(* Bounds of the model *)

\* The longest course list of a run.
MaxCourses == 2

MaxTimeSlots == 2

MaxPopulation == 4

MaxGenerations == 2

\* Largest number of (instructor, room, time_slot) triples one class of a run
\* can draw: instructors * rooms * time_slots.
MaxChoices == 2

\* Largest number of different initial populations of a run:
\* (candidates of the configuration) ^ population_size.
MaxInitialPopulations == 256

\* Largest number of different initial populations of a run checked for
\* termination (FairSpec).
MaxFairPopulations == 16

\* The operator harness draws its own, wider operands.
MaxOperandCourses == 3

MaxOperandSpace == 16

\* The pools the inputs are drawn from (the names of main()).
AllSubjects == <<"Math", "Physics">>

AllInstructors == <<"Dr. Smith", "Dr. Jones">>

AllRooms == <<"Room 101", "Room 102">>

NoSchedule == [classes |-> <<>>, fitness |-> [num |-> 0, den |-> 1]]

-----------------------------------------------------------------------------
(* Helpers *)

RECURSIVE Pow(_, _)
Pow(b, e) == IF e = 0 THEN 1 ELSE b * Pow(b, e - 1)

Prefixes(s) == {SubSeq(s, 1, n) : n \in 0..Len(s)}

Range(s) == {s[i] : i \in 1..Len(s)}

-----------------------------------------------------------------------------
(* Schedule::calculate_fitness *)

EmptyScan ==
    [conflicts |-> 0, room_time_map |-> {}, instructor_time_map |-> {},
     course_time_map |-> {}, conflict_details |-> <<>>]

\* One iteration of a scan with the three keys and the three tests given.
ScanWith(st, room_key, instructor_key, course_key, room_hit, instructor_hit, course_hit) ==
    [conflicts |-> st.conflicts + (IF room_hit THEN 1 ELSE 0)
                                + (IF instructor_hit THEN 1 ELSE 0)
                                + (IF course_hit THEN 1 ELSE 0),
     room_time_map |-> st.room_time_map \cup {room_key},
     instructor_time_map |-> st.instructor_time_map \cup {instructor_key},
     course_time_map |-> st.course_time_map \cup {course_key},
     conflict_details |-> st.conflict_details
         \o (IF room_hit THEN <<<<"Room Conflict", room_key>>>> ELSE <<>>)
         \o (IF instructor_hit THEN <<<<"Instructor Conflict", instructor_key>>>> ELSE <<>>)
         \o (IF course_hit THEN <<<<"Course Conflict", course_key>>>> ELSE <<>>)]

\* A scan whose room key was copied from the course key (subject for room).
ScanClass_room_keyed_by_subject(st, class) ==
    LET room_key == <<class.subject, class.time_slot>>
        instructor_key == <<class.instructor, class.time_slot>>
        course_key == <<class.subject, class.time_slot>>
    IN  ScanWith(st, room_key, instructor_key, course_key,
                 room_key \in st.room_time_map,
                 instructor_key \in st.instructor_time_map,
                 course_key \in st.course_time_map)

\* A scan that dropped the `!` before insert: a new key counts as a conflict.
ScanClass_inverted(st, class) ==
    LET room_key == <<class.room, class.time_slot>>
        instructor_key == <<class.instructor, class.time_slot>>
        course_key == <<class.subject, class.time_slot>>
    IN  ScanWith(st, room_key, instructor_key, course_key,
                 room_key \notin st.room_time_map,
                 instructor_key \notin st.instructor_time_map,
                 course_key \notin st.course_time_map)

\* A scan whose three tests are chained with else: one conflict per class at most.
ScanClass_one_per_class(st, class) ==
    LET room_key == <<class.room, class.time_slot>>
        instructor_key == <<class.instructor, class.time_slot>>
        course_key == <<class.subject, class.time_slot>>
        room_hit == room_key \in st.room_time_map
        instructor_hit == ~room_hit /\ instructor_key \in st.instructor_time_map
        course_hit == ~room_hit /\ ~instructor_hit /\ course_key \in st.course_time_map
    IN  ScanWith(st, room_key, instructor_key, course_key,
                 room_hit, instructor_hit, course_hit)

\* A scan whose sets remember only the key of the class before.
ScanClass_last_key_only(st, class) ==
    LET room_key == <<class.room, class.time_slot>>
        instructor_key == <<class.instructor, class.time_slot>>
        course_key == <<class.subject, class.time_slot>>
        room_hit == room_key \in st.room_time_map
        instructor_hit == instructor_key \in st.instructor_time_map
        course_hit == course_key \in st.course_time_map
    IN  [conflicts |-> st.conflicts + (IF room_hit THEN 1 ELSE 0)
                                    + (IF instructor_hit THEN 1 ELSE 0)
                                    + (IF course_hit THEN 1 ELSE 0),
         room_time_map |-> {room_key},
         instructor_time_map |-> {instructor_key},
         course_time_map |-> {course_key},
         conflict_details |-> st.conflict_details
             \o (IF room_hit THEN <<<<"Room Conflict", room_key>>>> ELSE <<>>)
             \o (IF instructor_hit THEN <<<<"Instructor Conflict", instructor_key>>>> ELSE <<>>)
             \o (IF course_hit THEN <<<<"Course Conflict", course_key>>>> ELSE <<>>)]

\* One iteration of `for class in classes`: HashSet::insert returns false when
\* the key is already present, and each such insert counts one conflict.
ScanClass(st, class) ==
    LET room_key == <<class.room, class.time_slot>>
        instructor_key == <<class.instructor, class.time_slot>>
        course_key == <<class.subject, class.time_slot>>
        room_hit == room_key \in st.room_time_map
        instructor_hit == instructor_key \in st.instructor_time_map
        course_hit == course_key \in st.course_time_map
    IN  [conflicts |-> st.conflicts + (IF room_hit THEN 1 ELSE 0)
                                    + (IF instructor_hit THEN 1 ELSE 0)
                                    + (IF course_hit THEN 1 ELSE 0),
         room_time_map |-> st.room_time_map \cup {room_key},
         instructor_time_map |-> st.instructor_time_map \cup {instructor_key},
         course_time_map |-> st.course_time_map \cup {course_key},
         conflict_details |-> st.conflict_details
             \o (IF room_hit THEN <<<<"Room Conflict", room_key>>>> ELSE <<>>)
             \o (IF instructor_hit THEN <<<<"Instructor Conflict", instructor_key>>>> ELSE <<>>)
             \o (IF course_hit THEN <<<<"Course Conflict", course_key>>>> ELSE <<>>)]

RECURSIVE ScanClasses(_, _)
ScanClasses(classes, n) ==
    IF n = 0 THEN EmptyScan ELSE ScanClass(ScanClasses(classes, n - 1), classes[n])

\* The value of `conflicts` after the loop.
conflicts(classes) == ScanClasses(classes, Len(classes)).conflicts

\* `if !conflict_details.is_empty() { println!(...) }`
scoring_prints(classes) == ScanClasses(classes, Len(classes)).conflict_details # <<>>

\* A fitness that divides by the conflict count itself, guarded against zero.
calculate_fitness_no_offset(classes) ==
    [num |-> 1, den |-> IF conflicts(classes) = 0 THEN 1 ELSE conflicts(classes)]

\* 1.0 / (1.0 + conflicts as f64)
calculate_fitness(classes) == [num |-> 1, den |-> 1 + conflicts(classes)]

\* f64 comparison of two fitness values: x < y.
FitnessLess(x, y) == x.num * y.den < y.num * x.den

-----------------------------------------------------------------------------
(* Schedule::new, Schedule::crossover, Schedule::mutate *)

\* Schedule::new panics in the first iteration of its loop when a pool is
\* empty (choose(..).unwrap()) or the slot range is empty (gen_range(0..0)).
new_panics(subj, instr, rms, slots) ==
    Len(subj) > 0 /\ (Len(instr) = 0 \/ Len(rms) = 0 \/ slots = 0)

\* The class lists Schedule::new can draw: one class per subject, in order.
new_classes(subj, instr, rms, slots) ==
    {[i \in 1..Len(subj) |->
        [subject |-> subj[i], instructor |-> c[i][1], room |-> c[i][2],
         time_slot |-> c[i][3]]] :
     c \in [1..Len(subj) -> Range(instr) \X Range(rms) \X (0..(slots - 1))]}

\* The Schedules Schedule::new can return.
new(subj, instr, rms, slots) ==
    {[classes |-> cl, fitness |-> calculate_fitness(cl)] :
     cl \in new_classes(subj, instr, rms, slots)}

\* A crossover that takes the instructor from self and the placement from other.
crossover_blend(self, other, take_self) ==
    LET new_cl == [i \in 1..Len(self.classes) |->
                     IF take_self[i] THEN self.classes[i]
                     ELSE [self.classes[i] EXCEPT !.room = other.classes[i].room,
                                                  !.time_slot = other.classes[i].time_slot]]
    IN  [classes |-> new_cl, fitness |-> calculate_fitness(new_cl)]

\* A crossover that reads `other` from the far end.
crossover_mirrored(self, other, take_self) ==
    LET new_cl == [i \in 1..Len(self.classes) |->
                     IF take_self[i] THEN self.classes[i]
                     ELSE other.classes[Len(other.classes) + 1 - i]]
    IN  [classes |-> new_cl, fitness |-> calculate_fitness(new_cl)]

\* crossover with the outcomes of gen_bool(0.5) given as take_self[i].
crossover(self, other, take_self) ==
    LET new_cl == [i \in 1..Len(self.classes) |->
                     IF take_self[i] THEN self.classes[i] ELSE other.classes[i]]
    IN  [classes |-> new_cl, fitness |-> calculate_fitness(new_cl)]

\* A mutate that rewrites every class instead of the chosen one.
mutate_every_class(self, i, instructor, room, slot) ==
    LET cl == [j \in 1..Len(self.classes) |->
                  [self.classes[j] EXCEPT !.instructor = instructor, !.room = room,
                                          !.time_slot = slot]]
    IN  [classes |-> cl, fitness |-> calculate_fitness(cl)]

\* A mutate that leaves the stored fitness as it was.
mutate_stale_fitness(self, i, instructor, room, slot) ==
    LET cl == IF Len(self.classes) = 0
              THEN self.classes
              ELSE [self.classes EXCEPT ![i] =
                        [@ EXCEPT !.instructor = instructor, !.room = room,
                                  !.time_slot = slot]]
    IN  [classes |-> cl, fitness |-> self.fitness]

\* mutate with the drawn position i and the drawn instructor, room and slot.
\* An empty class list has no position to choose (choose_mut returns None).
mutate(self, i, instructor, room, slot) ==
    LET cl == IF Len(self.classes) = 0
              THEN self.classes
              ELSE [self.classes EXCEPT ![i] =
                        [@ EXCEPT !.instructor = instructor, !.room = room,
                                  !.time_slot = slot]]
    IN  [classes |-> cl, fitness |-> calculate_fitness(cl)]

\* Draws with the slot range closed at the top (0..=time_slots).
mutate_draws_inclusive(self, instr, rms, slots) ==
    IF Len(self.classes) = 0
    THEN {<<0, "", "", 0>>}
    ELSE (1..Len(self.classes)) \X Range(instr) \X Range(rms) \X (0..slots)

\* The draws mutate can make on `self`.
mutate_draws(self, instr, rms, slots) ==
    IF Len(self.classes) = 0
    THEN {<<0, "", "", 0>>}
    ELSE (1..Len(self.classes)) \X Range(instr) \X Range(rms) \X (0..(slots - 1))

-----------------------------------------------------------------------------
(* population.sort_by(|a, b| b.fitness.partial_cmp(&a.fitness).unwrap()) *)

\* The comparator with its operands the other way round (worst first).
ranks_before_ascending(a, b) == FitnessLess(a.fitness, b.fitness)

\* The comparator says a is Less than b (a goes first) when b.fitness < a.fitness.
ranks_before(a, b) == FitnessLess(b.fitness, a.fitness)

\* Insert s into the sorted sequence, after every element that does not rank
\* after it (sort_by is stable).
RECURSIVE insert_sorted(_, _)
insert_sorted(sorted, s) ==
    IF sorted = <<>> THEN <<s>>
    ELSE IF ranks_before(s, sorted[Len(sorted)])
         THEN Append(insert_sorted(SubSeq(sorted, 1, Len(sorted) - 1), s),
                     sorted[Len(sorted)])
         ELSE Append(sorted, s)

RECURSIVE sort_prefix(_, _)
sort_prefix(pop, n) ==
    IF n = 0 THEN <<>> ELSE insert_sorted(sort_prefix(pop, n - 1), pop[n])

\* No sort at all.
sort_by_skipped(pop) == pop

sort_by(pop) == sort_prefix(pop, Len(pop))

\* One parent more than the top half.
parents_one_more(pop, size) == SubSeq(pop, 1, (size \div 2) + 1)

\* The bottom half instead of the top half.
parents_bottom_half(pop, size) == SubSeq(pop, Len(pop) - (size \div 2) + 1, Len(pop))

\* &population[..population_size / 2]
parents(pop, size) == SubSeq(pop, 1, size \div 2)

\* The loop condition with <= for <.
next_gen_incomplete_off_by_one(ng, size) == Len(ng) <= size

\* while next_gen.len() < population_size
next_gen_incomplete(ng, size) == Len(ng) < size

\* A loop that stops one generation short.
generations_left_one_short(g, total) == g + 1 < total

\* for gen in 0..generations
generations_left(g, total) == g < total

-----------------------------------------------------------------------------
(* The inputs of a run *)

\* Course lists of at most n courses, a name repeated or not.  The names are
\* interchangeable, so a list starts with the first of them.
SubjectLists(n) ==
    {l \in UNION {[1..k -> Range(AllSubjects)] : k \in 0..n} :
        l = <<>> \/ l[1] = AllSubjects[1]}

\* The number of different class lists Schedule::new can draw for a configuration.
CandidateSpace(subj, instr, rms, slots) == Pow(Len(instr) * Len(rms) * slots, Len(subj))

\* Every configuration within the bounds, the invalid ones (an empty pool, no
\* time slot, a population below 2) included.
Configurations ==
    {c \in SubjectLists(MaxCourses) \X Prefixes(AllInstructors) \X Prefixes(AllRooms)
           \X (0..MaxTimeSlots) \X (0..MaxPopulation) \X (0..MaxGenerations) :
        /\ Len(c[2]) * Len(c[3]) * c[4] <= MaxChoices
        /\ Pow(CandidateSpace(c[1], c[2], c[3], c[4]), c[5]) <= MaxInitialPopulations}

InitInputs ==
    \E c \in Configurations :
        /\ subjects = c[1]
        /\ instructors = c[2]
        /\ rooms = c[3]
        /\ time_slots = c[4]
        /\ population_size = c[5]
        /\ generations = c[6]

\* The inputs the spec calls valid: population_size >= 2 and no empty pool.
ValidInputs ==
    /\ population_size >= 2
    /\ Len(instructors) > 0
    /\ Len(rooms) > 0
    /\ time_slots > 0

HarnessIdle ==
    /\ parent1 = NoSchedule
    /\ parent2 = NoSchedule
    /\ child = NoSchedule
    /\ call = "none"

-----------------------------------------------------------------------------
(* genetic_algorithm *)

Init ==
    /\ InitInputs
    /\ population = <<>>
    /\ next_gen = <<>>
    /\ gen = 0
    /\ pc = "init"
    /\ result = NoSchedule
    /\ scoring_output = FALSE
    /\ initial_best = <<>>
    /\ HarnessIdle

\* The lowest conflict count of a non-empty population.
best_conflicts(pop) ==
    CHOOSE k \in {conflicts(pop[i].classes) : i \in 1..Len(pop)} :
        \A j \in 1..Len(pop) : k <= conflicts(pop[j].classes)

\* One iteration of (0..population_size).map(|_| Schedule::new(..)).
NewSchedule ==
    /\ pc = "init"
    /\ Len(population) < population_size
    /\ IF new_panics(subjects, instructors, rooms, time_slots)
       THEN /\ pc' = "panicked"
            /\ UNCHANGED <<population, scoring_output>>
       ELSE \E s \in new(subjects, instructors, rooms, time_slots) :
                /\ population' = Append(population, s)
                /\ scoring_output' = (scoring_output \/ scoring_prints(s.classes))
                /\ pc' = pc
    /\ UNCHANGED <<inputs, next_gen, gen, result, initial_best, harness>>

\* .collect(): the initial population is complete.
PopulationBuilt ==
    /\ pc = "init"
    /\ Len(population) = population_size
    /\ pc' = "loop"
    /\ initial_best' = IF population = <<>> THEN <<>> ELSE <<best_conflicts(population)>>
    /\ UNCHANGED <<inputs, population, next_gen, gen, result, scoring_output, harness>>

\* The head of one generation: sort, report the best, take the parents and
\* start next_gen with them.  population[0] panics on an empty population.
GenerationStart ==
    /\ pc = "loop"
    /\ generations_left(gen, generations)
    /\ population' = sort_by(population)
    /\ IF population = <<>>
       THEN /\ pc' = "panicked"
            /\ UNCHANGED <<next_gen, scoring_output>>
       ELSE /\ scoring_output' = (scoring_output \/ scoring_prints(population'[1].classes))
            /\ next_gen' = parents(population', population_size)
            /\ pc' = "fill"
    /\ UNCHANGED <<inputs, gen, result, initial_best, harness>>

\* One iteration of `while next_gen.len() < population_size`: two parents are
\* drawn, crossed over, the child is mutated or not, and pushed.
\* parents.choose(..).unwrap() panics when there is no parent.
Offspring ==
    /\ pc = "fill"
    /\ next_gen_incomplete(next_gen, population_size)
    /\ LET pool == parents(population, population_size)
       IN  IF pool = <<>>
           THEN /\ pc' = "panicked"
                /\ UNCHANGED <<next_gen, scoring_output>>
           ELSE \E p1 \in Range(pool), p2 \in Range(pool) :
                \E take_self \in [1..Len(p1.classes) -> BOOLEAN] :
                    LET crossed == crossover(p1, p2, take_self)
                    IN  \/ /\ next_gen' = Append(next_gen, crossed)
                           /\ scoring_output' =
                                  (scoring_output \/ scoring_prints(crossed.classes))
                           /\ pc' = pc
                        \/ \E d \in mutate_draws(crossed, instructors, rooms, time_slots) :
                              LET mutated == mutate(crossed, d[1], d[2], d[3], d[4])
                              IN  /\ next_gen' = Append(next_gen, mutated)
                                  /\ scoring_output' =
                                         (scoring_output
                                            \/ scoring_prints(crossed.classes)
                                            \/ scoring_prints(mutated.classes))
                                  /\ pc' = pc
    /\ UNCHANGED <<inputs, population, gen, result, initial_best, harness>>

\* population = next_gen, and the loop variable advances.
Replace ==
    /\ pc = "fill"
    /\ ~next_gen_incomplete(next_gen, population_size)
    /\ population' = next_gen
    /\ next_gen' = <<>>
    /\ gen' = gen + 1
    /\ pc' = "loop"
    /\ UNCHANGED <<inputs, result, scoring_output, initial_best, harness>>

\* After the loop: sort once more and return population[0].
Return ==
    /\ pc = "loop"
    /\ ~generations_left(gen, generations)
    /\ population' = sort_by(population)
    /\ IF population = <<>>
       THEN /\ pc' = "panicked"
            /\ UNCHANGED result
       ELSE /\ result' = population'[1]
            /\ pc' = "done"
    /\ UNCHANGED <<inputs, next_gen, gen, scoring_output, initial_best, harness>>

Next ==
    \/ NewSchedule
    \/ PopulationBuilt
    \/ GenerationStart
    \/ Offspring
    \/ Replace
    \/ Return

Spec == Init /\ [][Next]_vars

\* The runs checked for termination: the configurations with few initial
\* populations.
FairInit ==
    /\ Init
    /\ Pow(CandidateSpace(subjects, instructors, rooms, time_slots), population_size)
           <= MaxFairPopulations

\* genetic_algorithm is sequential code: it keeps running until it returns or panics.
FairSpec == FairInit /\ [][Next]_vars /\ WF_vars(Next)

-----------------------------------------------------------------------------
(* The operators on their own: Schedule::new, crossover and mutate are called
   on operands drawn from every configuration within the harness bounds. *)

OperandConfigurations ==
    {c \in SubjectLists(MaxOperandCourses) \X Prefixes(AllInstructors)
           \X Prefixes(AllRooms) \X (0..MaxTimeSlots) :
        CandidateSpace(c[1], c[2], c[3], c[4]) <= MaxOperandSpace}

OpInit ==
    /\ \E c \in OperandConfigurations :
          /\ subjects = c[1]
          /\ instructors = c[2]
          /\ rooms = c[3]
          /\ time_slots = c[4]
    /\ population_size = 0
    /\ generations = 0
    /\ population = <<>>
    /\ next_gen = <<>>
    /\ gen = 0
    /\ pc = "harness"
    /\ result = NoSchedule
    /\ scoring_output = FALSE
    /\ initial_best = <<>>
    /\ HarnessIdle

ga_state == <<inputs, population, next_gen, gen, pc, result, initial_best>>

\* Two calls of Schedule::new.
CallNew ==
    /\ call = "none"
    /\ IF new_panics(subjects, instructors, rooms, time_slots)
       THEN /\ call' = "panicked"
            /\ UNCHANGED <<parent1, parent2, scoring_output>>
       ELSE \E s1 \in new(subjects, instructors, rooms, time_slots),
               s2 \in new(subjects, instructors, rooms, time_slots) :
                /\ parent1' = s1
                /\ parent2' = s2
                /\ scoring_output' = (scoring_prints(s1.classes) \/ scoring_prints(s2.classes))
                /\ call' = "new"
    /\ UNCHANGED <<ga_state, child>>

\* parent1.crossover(&parent2)
CallCrossover ==
    /\ call = "new"
    /\ \E take_self \in [1..Len(parent1.classes) -> BOOLEAN] :
          /\ child' = crossover(parent1, parent2, take_self)
          /\ scoring_output' = (scoring_output \/ scoring_prints(child'.classes))
    /\ call' = "crossover"
    /\ UNCHANGED <<ga_state, parent1, parent2>>

\* child.mutate(&instructors, &rooms, time_slots)
CallMutate ==
    /\ call = "crossover"
    /\ \E d \in mutate_draws(child, instructors, rooms, time_slots) :
          /\ child' = mutate(child, d[1], d[2], d[3], d[4])
          /\ scoring_output' = (scoring_output \/ scoring_prints(child'.classes))
    /\ call' = "mutate"
    /\ UNCHANGED <<ga_state, parent1, parent2>>

OpNext ==
    \/ CallNew
    \/ CallCrossover
    \/ CallMutate

OpSpec == OpInit /\ [][OpNext]_vars

-----------------------------------------------------------------------------
(* Properties of the evolution loop (checked under Spec and FairSpec) *)

\* The highest stored fitness of a non-empty population.
best_fitness(pop) ==
    CHOOSE f \in {pop[i].fitness : i \in 1..Len(pop)} :
        \A j \in 1..Len(pop) : ~FitnessLess(f, pop[j].fitness)

\* C1: under valid inputs, no step taken once the population is built (the
\* sort at the head of a generation, the replacement population = next_gen at
\* its end, the final sort) lowers the highest fitness in the population: the
\* best fitness after a generation is at least the best fitness before it.
C1_BestFitnessNeverDecreases ==
    [][(ValidInputs /\ pc \in {"loop", "fill"})
         => ~FitnessLess(best_fitness(population'), best_fitness(population))]_vars

\* A generation has been replaced, its population holds a child that beats the
\* whole initial population and a candidate worse than that child.
C1_Witness ==
    /\ ValidInputs
    /\ pc = "loop"
    /\ gen >= 1
    /\ \E i, j \in 1..Len(population) :
          /\ conflicts(population[i].classes) < initial_best[1]
          /\ conflicts(population[j].classes) > conflicts(population[i].classes)

\* C2: the returned candidate is a member of the final population and no
\* candidate of the final population has strictly fewer conflicts than it.
C2_ReturnedIsBestOfFinal ==
    pc = "done" =>
        /\ \E i \in 1..Len(population) : population[i] = result
        /\ \A i \in 1..Len(population) :
              conflicts(result.classes) <= conflicts(population[i].classes)

\* A run of at least one generation has returned from a final population that
\* also holds a strictly worse candidate, ranked behind a child.
C2_Witness ==
    /\ pc = "done"
    /\ gen >= 1
    /\ \E i \in 1..Len(population) :
          conflicts(population[i].classes) > conflicts(result.classes)
    /\ conflicts(result.classes) < initial_best[1]

\* C3: under valid inputs the returned candidate has at most as many conflicts
\* as the best candidate of the initial population.
C3_ResultNoWorseThanInitialBest ==
    (ValidInputs /\ pc = "done") =>
        /\ initial_best # <<>>
        /\ conflicts(result.classes) <= initial_best[1]

\* A run of the longest generation count has returned an improvement on an
\* initial population whose best candidate still had conflicts.
C3_Witness ==
    /\ ValidInputs
    /\ pc = "done"
    /\ generations = MaxGenerations
    /\ initial_best # <<>>
    /\ initial_best[1] > 0
    /\ conflicts(result.classes) < initial_best[1]

\* C4: under valid inputs every run reaches its return, and at the return the
\* generation loop has run exactly `generations` times (gen counts the
\* completed iterations).  A run that panicked, that left the loop early or
\* that stayed in an offspring-filling loop would never reach that state.
C4_TerminatesAfterAllGenerations ==
    ValidInputs ~> (pc = "done" /\ gen = generations)

\* A run whose initial population already held a conflict-free candidate has
\* still gone through every one of its generations before returning.
C4_Witness ==
    /\ ValidInputs
    /\ pc = "done"
    /\ generations = MaxGenerations
    /\ gen = generations
    /\ initial_best = <<0>>

\* The candidates a state of the run holds.
Candidates ==
    Range(population) \cup Range(next_gen) \cup (IF pc = "done" THEN {result} ELSE {})

\* C9: every candidate of the run (in the population, in next_gen, returned)
\* has exactly one class per course of the input list, and the class at
\* position i carries the i-th course.
C9_OneClassPerCourseInOrder ==
    \A s \in Candidates :
        /\ Len(s.classes) = Len(subjects)
        /\ \A i \in 1..Len(subjects) : s.classes[i].subject = subjects[i]

\* A population of a later generation, over two different courses, holds a
\* candidate better than every initial one: a child of crossover or mutation.
C9_Witness ==
    /\ ValidInputs
    /\ gen >= 1
    /\ Len(subjects) = 2
    /\ subjects[1] # subjects[2]
    /\ \E i \in 1..Len(population) :
          conflicts(population[i].classes) < initial_best[1]

\* C10: for population_size >= 2 the population holds exactly population_size
\* candidates once it is built, in every generation and at the return.
C10_PopulationSizeFixed ==
    (population_size >= 2 /\ pc \in {"loop", "fill", "done"})
        => Len(population) = population_size

\* An odd population has been replaced at least once.
C10_Witness ==
    /\ population_size = 3
    /\ Len(population) = 3
    /\ pc = "loop"
    /\ gen >= 1
    /\ Len(parents(population, population_size)) = 1

-----------------------------------------------------------------------------
(* Properties of the operators (checked under OpSpec) *)

\* The Schedules the harness holds after its last call.
Operands ==
    (IF call \in {"new", "crossover", "mutate"} THEN {parent1, parent2} ELSE {})
        \cup (IF call \in {"crossover", "mutate"} THEN {child} ELSE {})

\* C5: for every candidate, calculate_fitness returns 1/(1 + conflicts): a
\* value above 0 and at most 1 that is 1 exactly when there is no conflict.
C5_FitnessRange ==
    \A s \in Operands :
        LET f == calculate_fitness(s.classes)
            k == conflicts(s.classes)
        IN  /\ f.den > 0
            /\ f.num * (1 + k) = f.den
            /\ f.num > 0
            /\ f.num <= f.den
            /\ (f.num = f.den) <=> (k = 0)

\* The harness holds a conflict-free parent and a child with a single conflict.
C5_Witness ==
    /\ call = "mutate"
    /\ conflicts(parent1.classes) = 0
    /\ conflicts(child.classes) = 1

\* The bijections of 1..n.
IndexPermutations(n) ==
    {f \in [1..n -> 1..n] : \A i, j \in 1..n : i # j => f[i] # f[j]}

\* C6: a class list and each of its permutations have the same conflict
\* count, for every class list Schedule::new can draw.
C6_ConflictsOrderIndependent ==
    call = "new" =>
        \A s \in {parent1, parent2} :
            \A f \in IndexPermutations(Len(s.classes)) :
                conflicts([i \in 1..Len(s.classes) |-> s.classes[f[i]]])
                    = conflicts(s.classes)

\* A list of three classes whose first and last clash while the middle one
\* clashes with neither: its permutations put the clashing pair side by side.
C6_Witness ==
    /\ call = "new"
    /\ Len(parent1.classes) = 3
    /\ conflicts(parent1.classes) > 0
    /\ conflicts(<<parent1.classes[1], parent1.classes[2]>>) = 0
    /\ conflicts(<<parent1.classes[2], parent1.classes[3]>>) = 0

\* C7: the child crossover returns is as long as each parent and carries, at
\* every position, the whole class of one of the parents at that position.
C7_CrossoverTakesWholeClasses ==
    call = "crossover" =>
        /\ Len(child.classes) = Len(parent1.classes)
        /\ Len(child.classes) = Len(parent2.classes)
        /\ \A i \in 1..Len(child.classes) :
              child.classes[i] \in {parent1.classes[i], parent2.classes[i]}

\* A child that took one class from each of two parents that differ in both
\* the instructor and the time slot at the position taken from the other.
C7_Witness ==
    /\ call = "crossover"
    /\ \E i, j \in 1..Len(child.classes) :
          /\ child.classes[i] = parent1.classes[i]
          /\ child.classes[i] # parent2.classes[i]
          /\ child.classes[j] = parent2.classes[j]
          /\ parent1.classes[j].instructor # parent2.classes[j].instructor
          /\ parent1.classes[j].time_slot # parent2.classes[j].time_slot

\* C8: one call of mutate keeps the length, keeps every subject, and changes
\* the class at no more than one position.
C8_MutateChangesAtMostOneClass ==
    [][(call = "crossover" /\ call' = "mutate") =>
         /\ Len(child'.classes) = Len(child.classes)
         /\ \A i \in 1..Len(child.classes) :
               child'.classes[i].subject = child.classes[i].subject
         /\ Cardinality({i \in 1..Len(child.classes) :
                            child'.classes[i] # child.classes[i]}) <= 1]_vars

\* After mutate, a child of three classes holds a class that neither parent
\* had at its position, and the classes of both parents everywhere else.
C8_Witness ==
    /\ call = "mutate"
    /\ Len(child.classes) = 3
    /\ \E i \in 1..3 :
          /\ child.classes[i] \notin {parent1.classes[i], parent2.classes[i]}
          /\ \A j \in (1..3) \ {i} :
                child.classes[j] \in {parent1.classes[j], parent2.classes[j]}

-----------------------------------------------------------------------------
(* Invalid configurations *)

\* A configuration the spec calls invalid.
InvalidConfiguration ==
    \/ Len(subjects) = 0
    \/ Len(instructors) = 0
    \/ Len(rooms) = 0
    \/ time_slots = 0
    \/ population_size < 2

\* C11: a run on an invalid configuration (no course, no instructor, no room,
\* no time slot, or population_size < 2) never returns and never gets into
\* the evolution: it has failed before the first generation fills next_gen or
\* completes.
C11_InvalidConfigurationFailsFirst ==
    InvalidConfiguration => (pc \notin {"fill", "done"} /\ gen = 0)

\* C12: Schedule::new returns no candidate when the instructor pool or the
\* room pool is empty or there is no time slot, whatever the course list.
C12_NewFailsOnEmptyPool ==
    (Len(instructors) = 0 \/ Len(rooms) = 0 \/ time_slots = 0)
        => call \notin {"new", "crossover", "mutate"}

-----------------------------------------------------------------------------
(* Conflict counts by kind *)

\* The number of reported conflicts of one kind.
conflicts_of_kind(classes, kind) ==
    LET details == ScanClasses(classes, Len(classes)).conflict_details
    IN  Cardinality({i \in 1..Len(details) : details[i][1] = kind})

ScenarioB ==
    /\ Len(subjects) = 2
    /\ Len(instructors) = 1
    /\ Len(rooms) = 1
    /\ time_slots = 1

\* C13: with 2 courses, 1 instructor, 1 room and 1 time slot every candidate
\* of a run has at least one room conflict and at least one instructor
\* conflict, hence a conflict count of at least 2.
C13_ScenarioBAlwaysConflicts ==
    ScenarioB =>
        \A s \in Candidates :
            /\ conflicts_of_kind(s.classes, "Room Conflict") >= 1
            /\ conflicts_of_kind(s.classes, "Instructor Conflict") >= 1
            /\ conflicts(s.classes) >= 2
            /\ s.fitness.den >= 3 * s.fitness.num

\* A run of scenario B over two different courses has returned after a
\* generation in which two parents bred children.
C13_Witness ==
    /\ ScenarioB
    /\ subjects[1] # subjects[2]
    /\ population_size = 4
    /\ gen >= 1
    /\ pc = "done"
    /\ conflicts(result.classes) = 2

ScenarioA ==
    /\ Len(subjects) = 1
    /\ Len(instructors) = 1
    /\ Len(rooms) = 1
    /\ time_slots = 1

\* C14: with 1 course, 1 instructor, 1 room and 1 time slot every candidate of
\* a run has conflict count 0 and fitness 1.
C14_ScenarioANeverConflicts ==
    ScenarioA =>
        \A s \in Candidates :
            /\ conflicts(s.classes) = 0
            /\ s.fitness.num = s.fitness.den

\* A run of scenario A has returned after its generations.
C14_Witness ==
    /\ ScenarioA
    /\ population_size >= 2
    /\ generations = MaxGenerations
    /\ pc = "done"
    /\ Len(result.classes) = 1

\* The keys of one dimension of a class list.
room_keys(classes) == {<<classes[i].room, classes[i].time_slot>> : i \in 1..Len(classes)}

instructor_keys(classes) ==
    {<<classes[i].instructor, classes[i].time_slot>> : i \in 1..Len(classes)}

course_keys(classes) ==
    {<<classes[i].subject, classes[i].time_slot>> : i \in 1..Len(classes)}

\* C15: in each of the dimensions room, instructor and course the conflicts
\* counted are the classes minus the distinct (resource, time_slot) keys, and
\* the conflict count is the sum of the three.
C15_ConflictsAreDuplicateKeys ==
    \A s \in Operands :
        LET n == Len(s.classes)
        IN  /\ conflicts_of_kind(s.classes, "Room Conflict")
                  = n - Cardinality(room_keys(s.classes))
            /\ conflicts_of_kind(s.classes, "Instructor Conflict")
                  = n - Cardinality(instructor_keys(s.classes))
            /\ conflicts_of_kind(s.classes, "Course Conflict")
                  = n - Cardinality(course_keys(s.classes))
            /\ conflicts(s.classes)
                  = 3 * n - Cardinality(room_keys(s.classes))
                          - Cardinality(instructor_keys(s.classes))
                          - Cardinality(course_keys(s.classes))

\* A list of three classes that all share one room, instructor, course and
\* slot: the second and the third class count three conflicts each.
C15_Witness ==
    /\ call = "new"
    /\ Len(parent1.classes) = 3
    /\ conflicts(parent1.classes) = 6
    /\ conflicts(<<parent1.classes[1], parent1.classes[2]>>) = 3

-----------------------------------------------------------------------------
(* Stored fitness, survivors, output, pools *)

\* C16: the stored fitness of every candidate of a run is calculate_fitness of
\* the classes it holds now.
C16_StoredFitnessIsCurrent ==
    \A s \in Candidates : s.fitness = calculate_fitness(s.classes)

\* A later population holds a child whose fitness is higher than that of
\* both survivors it stands behind.
C16_Witness ==
    /\ population_size = 4
    /\ pc = "loop"
    /\ gen >= 1
    /\ \E i \in 3..4 :
          /\ FitnessLess(population[1].fitness, population[i].fitness)
          /\ FitnessLess(population[2].fitness, population[i].fitness)

\* C17: the head of a generation starts next_gen with the top
\* floor(population_size / 2) candidates of the ranked population, every
\* later step of the generation leaves them and the ranked population as they
\* are and appends one child that differs from a crossover of two of them in
\* at most one class, and the replacement carries them unchanged, in order,
\* into the next population.
C17_SurvivorsUnchanged ==
    [][LET half == population_size \div 2
       IN  /\ (pc = "loop" /\ pc' = "fill")
                 => next_gen' = SubSeq(population', 1, half)
           /\ (pc = "fill" /\ pc' = "fill")
                 => /\ population' = population
                    /\ Len(next_gen') = Len(next_gen) + 1
                    /\ SubSeq(next_gen', 1, Len(next_gen)) = next_gen
                    /\ LET born == next_gen'[Len(next_gen')]
                       IN  \E a, b \in 1..half :
                              Cardinality({k \in 1..Len(born.classes) :
                                  born.classes[k] \notin {population[a].classes[k],
                                                          population[b].classes[k]}}) <= 1
           /\ (pc = "fill" /\ pc' = "loop")
                 => /\ Len(population') = population_size
                    /\ SubSeq(population', 1, half) = SubSeq(population, 1, half)]_vars

\* A population of four after a replacement: behind the two survivors stands
\* a child with a class that neither survivor has at its position.
C17_Witness ==
    /\ population_size = 4
    /\ pc = "loop"
    /\ gen >= 1
    /\ Len(subjects) = 2
    /\ \E i \in 3..4 : \E k \in 1..2 :
          population[i].classes[k]
              \notin {population[1].classes[k], population[2].classes[k]}

\* C18: no scoring call prints.
C18_ScoringPrintsNothing == scoring_output = FALSE

\* C19: every class of every candidate of a run has its instructor from the
\* instructor pool, its room from the room pool and its time_slot in
\* 0..time_slots-1.
C19_ValuesFromPools ==
    \A s \in Candidates :
        \A i \in 1..Len(s.classes) :
            /\ s.classes[i].instructor \in Range(instructors)
            /\ s.classes[i].room \in Range(rooms)
            /\ s.classes[i].time_slot \in 0..(time_slots - 1)

\* After a replacement over two time slots a child uses both slots although
\* each survivor uses one slot only.
C19_Witness ==
    /\ population_size = 4
    /\ time_slots = 2
    /\ Len(subjects) = 2
    /\ pc = "loop"
    /\ gen >= 1
    /\ population[1].classes[1].time_slot = population[1].classes[2].time_slot
    /\ population[2].classes[1].time_slot = population[2].classes[2].time_slot
    /\ \E i \in 3..4 :
          population[i].classes[1].time_slot # population[i].classes[2].time_slot

\* The course list names no course twice.
DistinctCourses == \A i, j \in 1..Len(subjects) : i # j => subjects[i] # subjects[j]

\* C20: without a repeated course name no candidate has a course conflict
\* and a candidate of n courses has at most 2*(n-1) conflicts.
C20_NoCourseConflict ==
    DistinctCourses =>
        \A s \in Candidates :
            /\ conflicts_of_kind(s.classes, "Course Conflict") = 0
            /\ conflicts(s.classes) <= 2 * (Len(subjects) - 1)

\* The same for the runs the spec admits, those with at least one course.
NoCourseConflictOfNonEmptyList ==
    (DistinctCourses /\ Len(subjects) >= 1) =>
        \A s \in Candidates :
            /\ conflicts_of_kind(s.classes, "Course Conflict") = 0
            /\ conflicts(s.classes) <= 2 * (Len(subjects) - 1)

====
